---- MODULE Spec2Model ----
(***************************************************************************)
(* Model of the generation backend: the sliding-window rate limiter        *)
(* (backend/app/services/rate_limiter.py), the /generate handler           *)
(* (backend/app/routes/generate.py) and the model fallback loop with its   *)
(* response clean-up (backend/app/services/gemini.py).                     *)
(*                                                                         *)
(* The handler is an `async def` that never awaits anything that suspends  *)
(* (check_rate_limit and client.models.generate_content are plain calls),  *)
(* so one request runs from entry to response before the event loop takes  *)
(* the next one.  The wall clock keeps running while a request is served.  *)
(***************************************************************************)
EXTENDS Integers, Sequences, FiniteSets, TLC

VARIABLES
    request_counts,   \* rate_limiter.request_counts: client_ip -> list of timestamps
    clock,            \* what datetime.now() returns, in ticks
    GEMINI_API_KEY,   \* gemini.GEMINI_API_KEY is set (TRUE) or missing (FALSE)
    req,              \* the request the handler is serving / has served last
    checks,           \* per client_ip, the log of its check_rate_limit calls so far
    pure,             \* one pass through the prompt builder and the response clean-up
    tasks,            \* the handler coroutines of the requests the server has accepted
    running           \* the coroutine that holds the event loop, or NoTask

vars == <<request_counts, clock, GEMINI_API_KEY, req, checks, pure, tasks, running>>

---------------------------------------------------------------------------
(* Bounds of the model *)

\* max_requests as passed to check_rate_limit; the handler passes the
\* default (10, rate_limiter.py:11).  The limiter is parametric in it and
\* the model runs it with a small value.
MaxRequests == 3

\* resolution of the clock: ticks per minute
TicksPerMinute == 2

\* number of requests a behaviour contains
MaxCalls == 5

\* length of the raw texts given to the response clean-up
MaxTextLen == 7

\* number of requests the server handles side by side
MaxTasks == 2

\* default of the window_minutes parameter
window_minutes == 1

\* the clock runs from 0 to MaxTime
MaxTime == window_minutes * TicksPerMinute + 1

---------------------------------------------------------------------------
(* Inputs *)

NoClient == "no-client"

\* request.client: a peer with a host, or None
Peers == {"10.0.0.1", NoClient}

ClientIps == {"10.0.0.1", "unknown"}

\* imageBase64 values: padded data holding a character outside the alphabet
\* (which b64decode skips), and data with the padding cut short
PaddedImage == <<"A", "!", "A", "=", "=">>
TruncatedImage == <<"A", "A", "=">>
Images == {PaddedImage, TruncatedImage}

\* the models of the fallback list, in order
models_to_try == <<"gemini-3-pro-preview", "gemini-3-flash-preview", "gemini-2.5-flash">>

\* the backtick character (U+0060)
Backtick == "<backtick>"

\* raw texts a model may answer with
Texts == { <<Backtick, Backtick, Backtick, "j", "s", "\n", "x", "\n", Backtick, Backtick, Backtick>> }

---------------------------------------------------------------------------
(* rate_limiter.py *)

ClientIpShared(peer) == "unknown"

\* line 17
ClientIp(peer) == IF peer # NoClient THEN peer ELSE "unknown"

\* line 19: now - timedelta(minutes=window_minutes)
WindowStart(now, minutes) == now - minutes * TicksPerMinute

PruneKeepAll(stamps, window_start) == stamps

PruneInclusive(stamps, window_start) ==
    SelectSeq(stamps, LAMBDA timestamp : timestamp >= window_start)

\* lines 22-25
Prune(stamps, window_start) ==
    SelectSeq(stamps, LAMBDA timestamp : timestamp > window_start)

LimitExceededStrict(stamps, max_requests) == Len(stamps) > max_requests

\* line 28
LimitExceeded(stamps, max_requests) == Len(stamps) >= max_requests

RecordAlways(stamps, now, exceeded) == Append(stamps, now)

\* lines 28-33: the list the call leaves behind, given the pruned list
Record(stamps, now, exceeded) ==
    IF exceeded THEN stamps ELSE Append(stamps, now)

\* lines 9-33: the result and the new list of one call
check_rate_limit(stamps, now, max_requests, minutes) ==
    LET pruned   == Prune(stamps, WindowStart(now, minutes))
        exceeded == LimitExceeded(pruned, max_requests)
    IN  [admitted |-> ~exceeded, stamps |-> Record(pruned, now, exceeded)]

---------------------------------------------------------------------------
(* gemini.py *)

B64Alphabet ==
    { "A","B","C","D","E","F","G","H","I","J","K","L","M","N","O","P","Q","R","S","T","U","V","W","X","Y","Z",
      "a","b","c","d","e","f","g","h","i","j","k","l","m","n","o","p","q","r","s","t","u","v","w","x","y","z",
      "0","1","2","3","4","5","6","7","8","9","+","/" }

\* base64.b64decode(image) with validate=False: characters outside the
\* alphabet are skipped, a pad that completes the quad ends the data, and
\* data that stops inside a quad is an error.  TRUE when it returns bytes.
RECURSIVE B64Scan(_, _, _, _)
B64Scan(s, i, quad_pos, pads) ==
    IF i > Len(s) THEN quad_pos = 0
    ELSE IF s[i] = "=" THEN
        IF quad_pos >= 2 /\ quad_pos + pads + 1 >= 4 THEN TRUE
        ELSE B64Scan(s, i + 1, quad_pos, IF quad_pos >= 2 THEN pads + 1 ELSE pads)
    ELSE IF s[i] \notin B64Alphabet THEN B64Scan(s, i + 1, quad_pos, pads)
    ELSE B64Scan(s, i + 1, (quad_pos + 1) % 4, 0)

DecodesLenient(image) == TRUE

\* line 66
Decodes(image) == B64Scan(image, 1, 0, 0)

KeyMissingIgnored(key) == FALSE

\* line 59
KeyMissing(key) == ~key

StartsWith(s, p) == Len(s) >= Len(p) /\ SubSeq(s, 1, Len(p)) = p

Drop(s, n) == SubSeq(s, n + 1, Len(s))

Fence == <<Backtick, Backtick, Backtick>>

\* the language tags of the first pattern, in the order of its alternation
Tags == << <<"o","p","e","n","s","c","a","d">>,
           <<"j","a","v","a","s","c","r","i","p","t">>,
           <<"j","s">> >>

DropTagNone(s) == s

\* (?:openscad|javascript|js)? : the first alternative that matches, else nothing
DropTag(s) ==
    IF StartsWith(s, Tags[1]) THEN Drop(s, Len(Tags[1]))
    ELSE IF StartsWith(s, Tags[2]) THEN Drop(s, Len(Tags[2]))
    ELSE IF StartsWith(s, Tags[3]) THEN Drop(s, Len(Tags[3]))
    ELSE s

\* \n?
DropNewline(s) == IF StartsWith(s, <<"\n">>) THEN Drop(s, 1) ELSE s

\* line 128: re.sub(r'```(?:openscad|javascript|js)?\n?', '', code)
RECURSIVE SubOpeningFences(_)
SubOpeningFences(s) ==
    IF s = <<>> THEN <<>>
    ELSE IF StartsWith(s, Fence) THEN SubOpeningFences(DropNewline(DropTag(Drop(s, 3))))
    ELSE <<Head(s)>> \o SubOpeningFences(Tail(s))

\* line 129: re.sub(r'```', '', code)
RECURSIVE SubFences(_)
SubFences(s) ==
    IF s = <<>> THEN <<>>
    ELSE IF StartsWith(s, Fence) THEN SubFences(Drop(s, 3))
    ELSE <<Head(s)>> \o SubFences(Tail(s))

\* the characters str.strip() removes
Whitespace == {" ", "\n", "\t", "\r"}

RECURSIVE LStrip(_)
LStrip(s) == IF s # <<>> /\ Head(s) \in Whitespace THEN LStrip(Tail(s)) ELSE s

RECURSIVE RStrip(_)
RStrip(s) ==
    IF s # <<>> /\ s[Len(s)] \in Whitespace THEN RStrip(SubSeq(s, 1, Len(s) - 1)) ELSE s

\* line 130
Strip(s) == RStrip(LStrip(s))

SanitizeStripFirst(code) == SubFences(SubOpeningFences(Strip(code)))

\* lines 128-130
Sanitize(code) == Strip(SubFences(SubOpeningFences(code)))

\* str() of the exceptions the code raises or meets, as lists of fragments
ConfigError == <<"GEMINI_API_KEY not configured">>                 \* line 60
ImageError == <<"Invalid base64 image data: ", "binascii.Error">>  \* line 68
ApiError(model) == <<"generate_content raised for ", model>>       \* lines 89-95
NoTextError == <<"object of type 'NoneType' has no len()">>        \* line 124, response.text is None
NoException == <<"None">>                                          \* line 83

\* line 142
AllModelsFailed(last_exception) ==
    <<"Gemini API error: All models failed. Last error: ">> \o last_exception

\* what one call of client.models.generate_content can do: raise, answer
\* without text, or answer with a text; log_ok tells whether the log file
\* of lines 102-120 can be written
Outcomes ==
    { [kind |-> "raise", text |-> <<>>, log_ok |-> TRUE],
      [kind |-> "none",  text |-> <<>>, log_ok |-> FALSE] }
    \cup { [kind |-> "text", text |-> t, log_ok |-> l] : t \in Texts, l \in BOOLEAN }

AttemptFailsOnLog(out) == out.kind # "text" \/ ~out.log_ok

\* lines 86-139: the iteration ends in the except branch unless a text came back
AttemptFails(out) == out.kind # "text"

\* the exception the except branch of line 134 catches
ErrorOf(model, out) == IF out.kind = "raise" THEN ApiError(model) ELSE NoTextError

LastExceptionFirst(last_exception, e) ==
    IF last_exception = NoException THEN e ELSE last_exception

\* line 137
LastException(last_exception, e) == e

NextIndexRetry(attempts) == (Len(attempts) + 2) \div 2

\* line 85: the position in models_to_try of the next model to call
NextIndex(attempts) == Len(attempts) + 1

ExhaustedEarly(attempts) == attempts # <<>>

\* lines 85, 141: the for loop has run out of models
Exhausted(attempts) == NextIndex(attempts) > Len(models_to_try)

---------------------------------------------------------------------------
(* generate.py *)

\* lines 15-18
Detail429 == <<"Rate limit exceeded. Maximum 10 requests per minute.">>

\* lines 30-33
Detail500(e) == <<"Failed to generate code: ">> \o e

RejectedNever(admitted) == FALSE

\* line 14: if not check_rate_limit(http_request)
Rejected(admitted) == ~admitted

Idle ==
    [pc |-> "idle", peer |-> NoClient, image |-> <<>>, admitted |-> FALSE,
     attempts |-> <<>>, last_exception |-> NoException,
     status |-> 0, code |-> <<>>, detail |-> <<>>]

\* the handler has raised HTTPException(status, detail)
Failed(r, status, detail) ==
    [r EXCEPT !.pc = "done", !.status = status, !.detail = detail]

\* lines 59-68 of gemini.py: what generate_openscad raises before the loop
Precheck(key, image) ==
    IF KeyMissing(key) THEN ConfigError
    ELSE IF ~Decodes(image) THEN ImageError
    ELSE <<>>

\* previousCode is not in the request body
Absent == <<>>

\* request bodies: the prompt, and previousCode when the client sends it
Prompts == { <<"add a hole">> }
PreviousCodes == { Absent, <<"const main = ...">> }

\* schemas.py lines 3-5: GenerateRequest keeps imageBase64 and prompt; a
\* previousCode member of the body is no field of it and is dropped
GenerateRequest(body) == [imageBase64 |-> body.imageBase64, prompt |-> body.prompt]

\* gemini.py line 73: the text part built from the request
ContextText(request) == <<"\n\nUser description: ">> \o request.prompt

\* the characters of the raw texts, and the raw texts up to a length
SanChars == {Backtick, "j", "s", "\n"}
Strings(n) == UNION { [1..k -> SanChars] : k \in 0..n }

PureIdle ==
    [stage |-> "new", prompt |-> <<>>, previous_code |-> Absent, context |-> <<>>,
     raw |-> <<>>, once |-> <<>>, twice |-> <<>>]

TaskIds == 1..MaxTasks

NoTask == 0

\* a coroutine slot without a request
NoRequest ==
    [pc |-> "none", peer |-> NoClient, image |-> <<>>, now |-> 0,
     attempts |-> <<>>, status |-> 0]

YieldsAnywhere(pc) == TRUE

\* generate.py lines 9-33, gemini.py lines 55-142: the handler and
\* generate_openscad are coroutines without an await that suspends
\* (check_rate_limit and client.models.generate_content are plain calls),
\* so the event loop gets control back only when the handler has ended
Yields(pc) == pc = "done"

---------------------------------------------------------------------------
(* The state machine *)

\* the number of requests handled so far
RECURSIVE SumLen(_, _)
SumLen(f, S) ==
    IF S = {} THEN 0
    ELSE LET c == CHOOSE x \in S : TRUE IN Len(f[c]) + SumLen(f, S \ {c})

TotalCalls == SumLen(checks, ClientIps)

Init ==
    /\ request_counts = [c \in ClientIps |-> <<>>]
    /\ clock = 0
    /\ GEMINI_API_KEY \in BOOLEAN
    /\ req = Idle
    /\ checks = [c \in ClientIps |-> <<>>]
    /\ pure = PureIdle
    /\ tasks = [t \in TaskIds |-> NoRequest]
    /\ running = NoTask

\* the wall clock advances
Tick ==
    /\ clock < MaxTime
    /\ clock' = clock + 1
    /\ UNCHANGED <<request_counts, GEMINI_API_KEY, req, checks, pure, tasks, running>>

\* generate.py lines 9-25: a request enters the handler, is checked by the
\* rate limiter and, when admitted, enters generate_openscad up to its loop
Generate(peer, image) ==
    /\ req.pc # "attempting"
    /\ TotalCalls < MaxCalls
    /\ LET client_ip == ClientIp(peer)
           r  == check_rate_limit(request_counts[client_ip], clock, MaxRequests, window_minutes)
           r0 == [Idle EXCEPT !.peer = peer, !.image = image, !.admitted = r.admitted]
           e  == Precheck(GEMINI_API_KEY, image)
       IN  /\ request_counts' = [request_counts EXCEPT ![client_ip] = r.stamps]
           /\ checks' = [checks EXCEPT ![client_ip] =
                            Append(@, [now |-> clock, before |-> request_counts[client_ip],
                                       after |-> r.stamps, admitted |-> r.admitted])]
           /\ req' = IF Rejected(r.admitted) THEN Failed(r0, 429, Detail429)
                     ELSE IF e # <<>> THEN Failed(r0, 500, Detail500(e))
                     ELSE [r0 EXCEPT !.pc = "attempting"]
    /\ UNCHANGED <<clock, GEMINI_API_KEY, pure, tasks, running>>

\* gemini.py lines 85-142 and generate.py lines 27-33: one iteration of the
\* loop over models_to_try, with the response when it ends the request
Attempt(out) ==
    /\ req.pc = "attempting"
    /\ LET model    == models_to_try[NextIndex(req.attempts)]
           attempts == Append(req.attempts, [model |-> model, kind |-> out.kind,
                                             text |-> out.text, log_ok |-> out.log_ok])
           last     == LastException(req.last_exception, ErrorOf(model, out))
       IN  req' = IF ~AttemptFails(out)
                    THEN [req EXCEPT !.pc = "done", !.attempts = attempts,
                                     !.status = 200, !.code = Sanitize(out.text)]
                  ELSE IF Exhausted(attempts)
                    THEN Failed([req EXCEPT !.attempts = attempts, !.last_exception = last],
                                500, Detail500(AllModelsFailed(last)))
                  ELSE [req EXCEPT !.attempts = attempts, !.last_exception = last]
    /\ UNCHANGED <<request_counts, clock, GEMINI_API_KEY, checks, pure, tasks, running>>

Next ==
    \/ Tick
    \/ \E peer \in Peers, image \in Images : Generate(peer, image)
    \/ \E out \in Outcomes : Attempt(out)

Spec == Init /\ [][Next]_vars

---------------------------------------------------------------------------
(* Properties of the rate limiter *)

\* the window length in ticks
WindowTicks == window_minutes * TicksPerMinute

\* the positions before `upto` (inclusive) of a client's log whose call was
\* made less than one window before the call at position k
InWindow(L, k, upto) == { i \in 1..upto : L[k].now - L[i].now < WindowTicks }

AdmittedInWindow(L, k) == { i \in InWindow(L, k, k - 1) : L[i].admitted }

MinOf(stamps) == CHOOSE t \in { stamps[i] : i \in DOMAIN stamps } :
                    \A i \in DOMAIN stamps : t <= stamps[i]

LastCheck(c) == checks[c][Len(checks[c])]

\* C1: a call of a client is admitted whenever the calls that client made
\* within one window up to and including it (admitted or not) number at most
\* MaxRequests, whatever the other clients did.
C1_WithinLimitAdmitted ==
    \A c \in ClientIps : \A k \in DOMAIN checks[c] :
        Cardinality(InWindow(checks[c], k, k)) <= MaxRequests => checks[c][k].admitted

C1_Witness ==
    \E c \in ClientIps : \E k \in DOMAIN checks[c] :
        /\ Cardinality(InWindow(checks[c], k, k)) = MaxRequests
        /\ k > MaxRequests
        /\ checks[c][k].admitted
        /\ \E d \in ClientIps \ {c} : \E j \in DOMAIN checks[d] :
              /\ checks[d][j].now <= checks[c][k].now
              /\ checks[d][j].now >= checks[c][1].now

\* C2: when MaxRequests calls of the client were admitted with timestamps
\* inside the window of a call, that call is rejected, and the handler
\* answers the rejected request with status 429 without calling any model.
C2_OverLimitRejected ==
    /\ \A c \in ClientIps : \A k \in DOMAIN checks[c] :
          Cardinality(AdmittedInWindow(checks[c], k)) >= MaxRequests
              => ~checks[c][k].admitted
    /\ req.pc # "idle" =>
          /\ req.admitted = LastCheck(ClientIp(req.peer)).admitted
          /\ ~req.admitted =>
                /\ req.pc = "done" /\ req.status = 429 /\ req.detail = Detail429
                /\ req.attempts = <<>> /\ req.code = <<>>

C2_Witness ==
    /\ req.pc = "done" /\ req.status = 429
    /\ LET L == checks[ClientIp(req.peer)]
       IN  /\ Cardinality(AdmittedInWindow(L, Len(L))) = MaxRequests
           /\ L[Len(L)].now > L[1].now

\* C3: after a rejected call, the client's first call made when at least one
\* window has passed since the earliest timestamp stored at the rejection is
\* admitted, if the client had no admitted call in between.
C3_WindowSlides ==
    \A c \in ClientIps : \A j \in DOMAIN checks[c] : \A k \in DOMAIN checks[c] :
        ( /\ j < k
          /\ ~checks[c][j].admitted
          /\ \A i \in (j + 1)..(k - 1) : ~checks[c][i].admitted
          /\ checks[c][k].now - MinOf(checks[c][j].after) >= WindowTicks )
        => checks[c][k].admitted

C3_Witness ==
    \E c \in ClientIps : \E j \in DOMAIN checks[c] : \E k \in DOMAIN checks[c] :
        /\ j < k
        /\ \A i \in j..(k - 1) : ~checks[c][i].admitted
        /\ checks[c][j].now > MinOf(checks[c][j].after)
        /\ checks[c][k].now - MinOf(checks[c][j].after) = WindowTicks
        /\ checks[c][k].admitted

\* C4: a rejected call records nothing: the list it leaves behind is the
\* list it found without the expired timestamps, the stored list of the
\* client is that list until its next call, and a run of rejected calls
\* leaves the stored timestamps as the first rejection left them.
C4_RejectNotRecorded ==
    \A c \in ClientIps :
        /\ \A k \in DOMAIN checks[c] :
              ~checks[c][k].admitted =>
                  /\ checks[c][k].after =
                        SelectSeq(checks[c][k].before,
                                  LAMBDA t : checks[c][k].now - t < WindowTicks)
                  /\ Len(checks[c][k].after) = Len(checks[c][k].before)
                  /\ k > 1 /\ ~checks[c][k - 1].admitted
                        => checks[c][k].after = checks[c][k - 1].after
        /\ checks[c] # <<>> => request_counts[c] = LastCheck(c).after

C4_Witness ==
    \E c \in ClientIps : \E k \in DOMAIN checks[c] :
        /\ k > 1
        /\ ~checks[c][k].admitted /\ ~checks[c][k - 1].admitted
        /\ checks[c][k].now > checks[c][k - 1].now
        /\ request_counts[c] = checks[c][k].after

---------------------------------------------------------------------------
(* Properties of the fallback loop and of the handler's responses *)

NModels == Len(models_to_try)

Succeeded(a) == a.kind = "text"

\* the error the i-th attempt of the request ended with
AttemptError(i) ==
    IF req.attempts[i].kind = "raise" THEN ApiError(models_to_try[i]) ELSE NoTextError

\* C5: the models are attempted in list order, each only after all models
\* before it failed; a success ends the loop; the response of a request with
\* a successful model is 200 with that model's output, fences and
\* surrounding whitespace removed.
C5_FirstSuccessInOrder ==
    /\ Len(req.attempts) <= NModels
    /\ \A i \in DOMAIN req.attempts :
          /\ req.attempts[i].model = models_to_try[i]
          /\ i < Len(req.attempts) => ~Succeeded(req.attempts[i])
    /\ \A i \in DOMAIN req.attempts :
          Succeeded(req.attempts[i]) =>
              /\ req.pc = "done" /\ req.status = 200 /\ req.detail = <<>>
              /\ req.code = Sanitize(req.attempts[i].text)
              /\ req.code = <<"x">>

C5_Witness ==
    /\ req.pc = "done" /\ req.status = 200
    /\ Len(req.attempts) = NModels
    /\ ~Succeeded(req.attempts[1]) /\ ~Succeeded(req.attempts[2])
    /\ Succeeded(req.attempts[NModels])
    /\ req.code = <<"x">>

\* C6: when every model of the list has failed, the request ends with one
\* 500 response whose detail is the aggregate error with the failure of the
\* last model of the list, and with no code.
C6_AllFailAggregate ==
    ( /\ Len(req.attempts) >= NModels
      /\ \A i \in DOMAIN req.attempts : ~Succeeded(req.attempts[i]) )
    => /\ req.pc = "done" /\ req.status = 500 /\ req.code = <<>>
       /\ Len(req.attempts) = NModels
       /\ req.detail = <<"Failed to generate code: ",
                         "Gemini API error: All models failed. Last error: ">>
                       \o AttemptError(NModels)

C6_Witness ==
    /\ req.pc = "done" /\ req.status = 500
    /\ Len(req.attempts) = NModels
    /\ req.attempts[1].kind = "none"
    /\ req.attempts[NModels].kind = "raise"

\* C7: within one request no model is called twice and the number of calls
\* never exceeds the length of the model list.
C7_EachModelOnce ==
    /\ Len(req.attempts) <= NModels
    /\ \A i \in DOMAIN req.attempts : \A j \in DOMAIN req.attempts :
          i # j => req.attempts[i].model # req.attempts[j].model

C7_Witness ==
    /\ req.pc = "done"
    /\ Len(req.attempts) = NModels
    /\ \A i \in DOMAIN req.attempts : req.attempts[i].kind = "raise"

AllAttemptedAllFailed ==
    /\ Len(req.attempts) = NModels
    /\ \A i \in DOMAIN req.attempts : ~Succeeded(req.attempts[i])

\* C8: an admitted request with a configured credential ends in an error
\* only after all models were attempted and failed.
C8_ErrorOnlyAfterAllFail ==
    (req.pc = "done" /\ req.admitted /\ GEMINI_API_KEY /\ req.status # 200)
        => AllAttemptedAllFailed

\* What the loop itself guarantees: once the image has decoded, a request
\* ends in an error only after all models were attempted and failed, and
\* ends with 200 when some model succeeded.
C8_ErrorOnlyAfterAllFailDecodable ==
    (req.pc = "done" /\ req.admitted /\ GEMINI_API_KEY /\ Decodes(req.image))
        => /\ req.status \in {200, 500}
           /\ req.status = 500 => AllAttemptedAllFailed
           /\ (\E i \in DOMAIN req.attempts : Succeeded(req.attempts[i]))
                 => req.status = 200

C8_Witness ==
    /\ req.pc = "done" /\ req.admitted /\ GEMINI_API_KEY /\ Decodes(req.image)
    /\ req.status = 500 /\ AllAttemptedAllFailed

\* C9: with a credential, an admitted request whose image does not decode
\* still reaches the models and is not answered with the decode error.
C9_BadImageNotFatal ==
    (req.pc = "done" /\ req.admitted /\ GEMINI_API_KEY /\ req.image = TruncatedImage)
        => /\ req.attempts # <<>>
           /\ req.detail # <<"Failed to generate code: ",
                             "Invalid base64 image data: ", "binascii.Error">>

\* What lines 65-68 do: with a credential, an admitted request whose image
\* does not decode ends at once with status 500 and the decode error as
\* detail; no model is called.  An image with characters outside the base64
\* alphabet but complete padding decodes and goes on to the models.
C9_BadImageAborts ==
    /\ (req.pc # "idle" /\ req.admitted /\ GEMINI_API_KEY /\ req.image = TruncatedImage)
          => /\ req.pc = "done" /\ req.status = 500 /\ req.code = <<>>
             /\ req.attempts = <<>>
             /\ req.detail = <<"Failed to generate code: ",
                               "Invalid base64 image data: ", "binascii.Error">>
    /\ (req.pc # "idle" /\ req.admitted /\ GEMINI_API_KEY
          /\ req.image = PaddedImage)
          => req.detail # <<"Failed to generate code: ",
                            "Invalid base64 image data: ", "binascii.Error">>

C9_Witness ==
    /\ req.pc = "done" /\ req.admitted /\ GEMINI_API_KEY
    /\ req.image = TruncatedImage
    /\ req.status = 500 /\ req.attempts = <<>>

\* C10: without the credential an admitted request ends at once with status
\* 500 and the configuration error as detail, and no model is ever called.
C10_MissingKeyFailsFast ==
    ~GEMINI_API_KEY =>
        /\ req.attempts = <<>>
        /\ req.pc # "attempting"
        /\ (req.pc = "done" /\ req.admitted) =>
              /\ req.status = 500 /\ req.code = <<>>
              /\ req.detail = <<"Failed to generate code: ", "GEMINI_API_KEY not configured">>

C10_Witness ==
    /\ ~GEMINI_API_KEY
    /\ req.pc = "done" /\ req.admitted /\ Decodes(req.image)
    /\ req.status = 500 /\ req.attempts = <<>>

---------------------------------------------------------------------------
(* Further properties of the handler and of the rate-limit state *)

\* C16: a model that answered with a text ends the request with 200 and that
\* text cleaned, also when the log file of the response could not be
\* written: the attempt is the last one and no error is reported.
C16_LogFailureHarmless ==
    \A i \in DOMAIN req.attempts :
        (req.attempts[i].kind = "text" /\ ~req.attempts[i].log_ok) =>
            /\ i = Len(req.attempts)
            /\ req.pc = "done" /\ req.status = 200 /\ req.detail = <<>>
            /\ req.code = <<"x">>

C16_Witness ==
    /\ req.pc = "done" /\ req.status = 200
    /\ Len(req.attempts) = 2
    /\ req.attempts[1].kind = "raise"
    /\ req.attempts[2].kind = "text" /\ ~req.attempts[2].log_ok

\* C17: every request is first checked by the rate limiter; a request the
\* limiter rejected never reaches a model, and every model attempt, like
\* every 200 or 500 response, belongs to a request the limiter admitted.
C17_LimiterGates ==
    req.pc # "idle" =>
        /\ checks[ClientIp(req.peer)] # <<>>
        /\ ~LastCheck(ClientIp(req.peer)).admitted =>
              /\ req.attempts = <<>> /\ req.pc = "done" /\ req.status = 429
        /\ (req.attempts # <<>> \/ req.pc = "attempting" \/ req.status \in {200, 500})
              => LastCheck(ClientIp(req.peer)).admitted

C17_Witness ==
    /\ req.pc = "done" /\ req.status = 429 /\ req.attempts = <<>>
    /\ GEMINI_API_KEY /\ req.image = PaddedImage
    /\ ~LastCheck(ClientIp(req.peer)).admitted

\* C18: every stored list holds at most MaxRequests timestamps, and the list
\* of a client holds only timestamps later than the window start of that
\* client's latest check, whether that check admitted or rejected.
C18_StoredWithinWindow ==
    \A c \in ClientIps :
        /\ Len(request_counts[c]) <= MaxRequests
        /\ checks[c] # <<>> =>
              \A i \in DOMAIN request_counts[c] :
                  request_counts[c][i] > LastCheck(c).now - WindowTicks

C18_Witness ==
    \E c \in ClientIps :
        /\ checks[c] # <<>>
        /\ Len(LastCheck(c).before) = MaxRequests
        /\ \A i \in DOMAIN LastCheck(c).before :
              LastCheck(c).before[i] <= LastCheck(c).now - WindowTicks
        /\ request_counts[c] = <<LastCheck(c).now>>

\* the bucket a request of the peer is counted in
BucketOf(peer) == IF peer = NoClient THEN "unknown" ELSE peer

\* C19: a check changes the stored list and the log of the caller's bucket
\* only (the host of the peer, or "unknown" for every caller without one),
\* and whether a call is admitted is decided by the admitted calls of the
\* same bucket inside its window alone.
C19_PerClientIsolation ==
    /\ [][ checks' # checks =>
             \A c \in ClientIps \ {BucketOf(req'.peer)} :
                 checks'[c] = checks[c] /\ request_counts'[c] = request_counts[c] ]_vars
    /\ [][ checks' = checks => request_counts' = request_counts ]_vars
    /\ [](\A c \in ClientIps : \A k \in DOMAIN checks[c] :
             checks[c][k].admitted
                 <=> Cardinality(AdmittedInWindow(checks[c], k)) < MaxRequests)

C19_Witness ==
    /\ req.pc = "done" /\ req.peer = NoClient /\ req.status = 429
    /\ Len(checks["unknown"]) = MaxRequests + 1
    /\ Len(checks["10.0.0.1"]) = 1
    /\ Len(request_counts["10.0.0.1"]) = 1

---------------------------------------------------------------------------
(* One pass through the pure parts: the text part built from a request      *)
(* body, a raw answer, its clean-up, and the clean-up applied to its own    *)
(* result.                                                                  *)

InitPure ==
    /\ request_counts = [c \in ClientIps |-> <<>>]
    /\ clock = 0
    /\ GEMINI_API_KEY = TRUE
    /\ req = Idle
    /\ checks = [c \in ClientIps |-> <<>>]
    /\ pure = PureIdle
    /\ tasks = [t \in TaskIds |-> NoRequest]
    /\ running = NoTask

\* generate.py lines 22-25 and gemini.py lines 71-75
BuildParts(prompt, previous_code) ==
    /\ pure.stage = "new"
    /\ LET body == [imageBase64 |-> PaddedImage, prompt |-> prompt,
                    previousCode |-> previous_code]
       IN  pure' = [pure EXCEPT !.stage = "built", !.prompt = prompt,
                                !.previous_code = previous_code,
                                !.context = ContextText(GenerateRequest(body))]
    /\ UNCHANGED <<request_counts, clock, GEMINI_API_KEY, req, checks, tasks, running>>

\* gemini.py line 98: a model answers with a raw text
Answer ==
    /\ pure.stage = "built"
    /\ \E raw \in Strings(MaxTextLen) :
          pure' = [pure EXCEPT !.stage = "answered", !.raw = raw]
    /\ UNCHANGED <<request_counts, clock, GEMINI_API_KEY, req, checks, tasks, running>>

\* gemini.py lines 128-130
Clean ==
    /\ pure.stage = "answered"
    /\ pure' = [pure EXCEPT !.stage = "clean", !.once = Sanitize(pure.raw)]
    /\ UNCHANGED <<request_counts, clock, GEMINI_API_KEY, req, checks, tasks, running>>

\* gemini.py lines 128-130, on a text that went through them before
Reclean ==
    /\ pure.stage = "clean"
    /\ pure' = [pure EXCEPT !.stage = "recleaned", !.twice = Sanitize(pure.once)]
    /\ UNCHANGED <<request_counts, clock, GEMINI_API_KEY, req, checks, tasks, running>>

NextPure ==
    \/ \E prompt \in Prompts, previous_code \in PreviousCodes : BuildParts(prompt, previous_code)
    \/ Answer
    \/ Clean
    \/ Reclean

SpecPure == InitPure /\ [][NextPure]_vars

---------------------------------------------------------------------------
(* Properties of the response clean-up and of the prompt builder *)

\* p occurs in s as a contiguous part
Contains(s, p) == \E i \in 0..(Len(s) - Len(p)) : SubSeq(s, i + 1, i + Len(p)) = p

NoBacktick(s) == \A i \in DOMAIN s : s[i] # Backtick

Trimmed(s) == s = <<>> \/ (s[1] \notin Whitespace /\ s[Len(s)] \notin Whitespace)

\* t is s without the whitespace at its two ends
IsTrimOf(t, s) ==
    /\ Trimmed(t)
    /\ \E i \in 0..Len(s) : \E j \in i..Len(s) :
          /\ SubSeq(s, i + 1, j) = t
          /\ \A k \in (1..i) \cup ((j + 1)..Len(s)) : s[k] \in Whitespace

JsFence == Fence \o <<"j", "s">>

\* C13: cleaning a cleaned text changes nothing, and the first substitution
\* leaves no fence marker behind, so removing a marker with its tag and
\* newline never joins the backticks around it into a new marker.
C13_SanitizeIdempotent ==
    /\ pure.stage = "recleaned" => pure.twice = pure.once
    /\ pure.stage \in {"answered", "clean", "recleaned"}
          => ~Contains(SubOpeningFences(pure.raw), Fence)

C13_Witness ==
    /\ pure.stage = "recleaned"
    /\ Contains(pure.raw, Fence)
    /\ pure.once # pure.raw
    /\ Contains(pure.once, <<Backtick, Backtick>>)
    /\ Contains(pure.once, <<"\n">>)
    /\ pure.twice = pure.once

\* C14: the cleaned text holds no fence marker and no whitespace at its
\* ends, wherever the markers stood; a marker with the tag js is removed
\* with its tag, and the fenced examples give their bare code.
C14_FencesRemoved ==
    /\ pure.stage \in {"clean", "recleaned"} =>
          /\ ~Contains(pure.once, Fence)
          /\ Trimmed(pure.once)
          /\ (StartsWith(pure.raw, JsFence) /\ NoBacktick(Drop(pure.raw, Len(JsFence))))
                => IsTrimOf(pure.once, Drop(pure.raw, Len(JsFence)))
    /\ Sanitize(JsFence \o <<"\n", "C", "O", "D", "E", "\n">> \o Fence) = <<"C", "O", "D", "E">>
    /\ Sanitize(Fence \o Tags[2] \o <<"\n", "x", " ", "y">> \o Fence \o <<"\n">>) = <<"x", " ", "y">>
    /\ Sanitize(<<"a", "\n">> \o Fence \o Tags[1] \o <<"\n", "x", "\n">> \o Fence \o <<"b">>)
          = <<"a", "\n", "x", "\n", "b">>

C14_Witness ==
    /\ pure.stage = "clean"
    /\ pure.raw = <<"j">> \o JsFence \o <<"s">>
    /\ pure.once = <<"j", "s">>

\* C15: with previousCode in the request body the text part holds the
\* previous code and the prompt and differs from the text part built from
\* the prompt alone.
C15_TwoModes ==
    (pure.stage # "new" /\ pure.previous_code # Absent) =>
        /\ Contains(pure.context, pure.previous_code)
        /\ Contains(pure.context, pure.prompt)
        /\ pure.context # ContextText([prompt |-> pure.prompt])

\* What line 73 builds: the same text part for a prompt, whatever the body
\* holds besides it.
C15_SingleMode ==
    pure.stage # "new" =>
        pure.context = <<"\n\nUser description: ">> \o pure.prompt

---------------------------------------------------------------------------
(* Requests handled side by side: the handler statement by statement, each  *)
(* request a coroutine on the one event loop.                               *)

\* n timestamps 0, and the log of the n admitted calls that stored them
Zeros(n) == [i \in 1..n |-> 0]
EarlierChecks(n) ==
    [i \in 1..n |-> [now |-> 0, before |-> Zeros(i - 1), after |-> Zeros(i),
                     admitted |-> TRUE]]

\* the server, its key configured, after n requests of every client were
\* admitted at time 0
InitConc ==
    /\ \E n \in 0..MaxRequests :
          /\ request_counts = [c \in ClientIps |-> Zeros(n)]
          /\ checks = [c \in ClientIps |-> EarlierChecks(n)]
    /\ clock = 0
    /\ GEMINI_API_KEY = TRUE
    /\ req = Idle
    /\ pure = PureIdle
    /\ tasks = [t \in TaskIds |-> NoRequest]
    /\ running = NoTask

\* the coroutine may execute its next statement
CanRun(t) ==
    \/ running = t
    \/ running = NoTask /\ tasks[t].pc \notin {"none", "pending", "done"}

\* the state after coroutine t has moved to the task record r
Moved(t, r) ==
    /\ tasks' = [tasks EXCEPT ![t] = r]
    /\ running' = IF Yields(r.pc) THEN NoTask ELSE t

Logged(t, before, after, admitted) ==
    checks' = [checks EXCEPT ![ClientIp(tasks[t].peer)] =
                  Append(@, [now |-> tasks[t].now, before |-> before,
                             after |-> after, admitted |-> admitted])]

\* the server accepts a request; its coroutine waits for the event loop
Arrive(t, peer, image) ==
    /\ tasks[t].pc = "none"
    /\ \A u \in TaskIds : u < t => tasks[u].pc # "none"
    /\ tasks' = [tasks EXCEPT ![t] = [NoRequest EXCEPT !.pc = "pending", !.peer = peer,
                                                       !.image = image]]
    /\ UNCHANGED <<request_counts, clock, GEMINI_API_KEY, req, checks, pure, running>>

\* the wall clock advances
TickConc ==
    /\ clock < MaxTime
    /\ clock' = clock + 1
    /\ UNCHANGED <<request_counts, GEMINI_API_KEY, req, checks, pure, tasks, running>>

\* the event loop starts the handler; rate_limiter.py lines 17-19
Begin(t) ==
    /\ tasks[t].pc = "pending"
    /\ running = NoTask
    /\ Moved(t, [tasks[t] EXCEPT !.pc = "read", !.now = clock])
    /\ UNCHANGED <<request_counts, clock, GEMINI_API_KEY, req, checks, pure>>

\* rate_limiter.py lines 22-25
StepPrune(t) ==
    /\ tasks[t].pc = "read"
    /\ CanRun(t)
    /\ request_counts' = [request_counts EXCEPT ![ClientIp(tasks[t].peer)] =
                             Prune(@, WindowStart(tasks[t].now, window_minutes))]
    /\ Moved(t, [tasks[t] EXCEPT !.pc = "pruned"])
    /\ UNCHANGED <<clock, GEMINI_API_KEY, req, checks, pure>>

\* rate_limiter.py lines 28-29 and generate.py lines 14-18
StepCheck(t) ==
    /\ tasks[t].pc = "pruned"
    /\ CanRun(t)
    /\ LET stamps == request_counts[ClientIp(tasks[t].peer)]
       IN  IF LimitExceeded(stamps, MaxRequests)
             THEN /\ Moved(t, [tasks[t] EXCEPT !.pc = "done", !.status = 429])
                  /\ Logged(t, stamps, stamps, FALSE)
             ELSE /\ Moved(t, [tasks[t] EXCEPT !.pc = "checked"])
                  /\ UNCHANGED checks
    /\ UNCHANGED <<request_counts, clock, GEMINI_API_KEY, req, pure>>

\* rate_limiter.py lines 32-33
StepAppend(t) ==
    /\ tasks[t].pc = "checked"
    /\ CanRun(t)
    /\ LET stamps == request_counts[ClientIp(tasks[t].peer)]
           after  == Append(stamps, tasks[t].now)
       IN  /\ request_counts' = [request_counts EXCEPT ![ClientIp(tasks[t].peer)] = after]
           /\ Logged(t, stamps, after, TRUE)
    /\ Moved(t, [tasks[t] EXCEPT !.pc = "admitted"])
    /\ UNCHANGED <<clock, GEMINI_API_KEY, req, pure>>

\* generate.py lines 20-25 and gemini.py lines 59-95: generate_openscad up
\* to the call of the first model
StepEnter(t) ==
    /\ tasks[t].pc = "admitted"
    /\ CanRun(t)
    /\ Moved(t, IF Precheck(GEMINI_API_KEY, tasks[t].image) # <<>>
                  THEN [tasks[t] EXCEPT !.pc = "done", !.status = 500]
                  ELSE [tasks[t] EXCEPT !.pc = "calling"])
    /\ UNCHANGED <<request_counts, clock, GEMINI_API_KEY, req, checks, pure>>

\* gemini.py lines 89-142: the call in flight returns or raises; the loop
\* goes on to the call of the next model or the request ends
Return(t, out) ==
    /\ tasks[t].pc = "calling"
    /\ CanRun(t)
    /\ LET attempts == Append(tasks[t].attempts, models_to_try[NextIndex(tasks[t].attempts)])
       IN  Moved(t, IF ~AttemptFails(out)
                      THEN [tasks[t] EXCEPT !.pc = "done", !.attempts = attempts, !.status = 200]
                    ELSE IF Exhausted(attempts)
                      THEN [tasks[t] EXCEPT !.pc = "done", !.attempts = attempts, !.status = 500]
                    ELSE [tasks[t] EXCEPT !.attempts = attempts])
    /\ UNCHANGED <<request_counts, clock, GEMINI_API_KEY, req, checks, pure>>

NextConc ==
    \/ TickConc
    \/ \E t \in TaskIds, peer \in Peers, image \in Images : Arrive(t, peer, image)
    \/ \E t \in TaskIds : Begin(t)
    \/ \E t \in TaskIds : StepPrune(t)
    \/ \E t \in TaskIds : StepCheck(t)
    \/ \E t \in TaskIds : StepAppend(t)
    \/ \E t \in TaskIds : StepEnter(t)
    \/ \E t \in TaskIds, out \in Outcomes : Return(t, out)

SpecConc == InitConc /\ [][NextConc]_vars

---------------------------------------------------------------------------
(* Properties of requests handled side by side *)

\* the positions of a client's log whose call was admitted with timestamp v
AdmittedAt(L, v) == { i \in 1..Len(L) : L[i].admitted /\ L[i].now = v }

\* the positions of a stored sequence that hold the timestamp v
StoredAt(stamps, v) == { i \in 1..Len(stamps) : stamps[i] = v }

\* the admitted calls of a log made within the window that ends with call k
AdmittedInWindowOf(L, k) ==
    { i \in 1..Len(L) : /\ L[i].admitted
                        /\ L[i].now <= L[k].now
                        /\ L[k].now - L[i].now < WindowTicks }

\* C11: whatever the interleaving of the requests of one client, no update of
\* its window is lost: the admitted calls with timestamps inside one window
\* never number more than MaxRequests, and the timestamp of every admitted
\* call is in the stored sequence, once per admitted call, until it expires.
C11_NoLostUpdate ==
    \A c \in ClientIps :
        /\ \A k \in 1..Len(checks[c]) :
              checks[c][k].admitted =>
                  Cardinality(AdmittedInWindowOf(checks[c], k)) <= MaxRequests
        /\ \A k \in 1..Len(checks[c]) :
              (checks[c][k].admitted /\ clock - checks[c][k].now < WindowTicks) =>
                  Cardinality(StoredAt(request_counts[c], checks[c][k].now))
                      = Cardinality(AdmittedAt(checks[c], checks[c][k].now))

\* two requests of one client arrive together, one takes the last place of
\* the window and the other is rejected
C11_Witness ==
    \E t, u \in TaskIds :
        /\ t # u
        /\ tasks[t].pc \notin {"none", "pending"}
        /\ tasks[u].pc = "done"
        /\ ClientIp(tasks[t].peer) = ClientIp(tasks[u].peer)
        /\ tasks[t].now = tasks[u].now
        /\ tasks[t].status = 200
        /\ tasks[u].status = 429
        /\ Len(request_counts[ClientIp(tasks[t].peer)]) = MaxRequests
        /\ LastCheck(ClientIp(tasks[t].peer)).now = tasks[u].now
        /\ ~LastCheck(ClientIp(tasks[t].peer)).admitted

\* C12: while the call of one request to the generative API is in flight,
\* another inbound request is not blocked: the server can start handling it
\* (and so admit or reject and answer it) before that call returns.
C12_OthersNotBlocked ==
    \A t, u \in TaskIds :
        (tasks[t].pc = "calling" /\ tasks[u].pc = "pending") => ENABLED Begin(u)

\* what the code does: the call in flight keeps the event loop, and a request
\* that arrived meanwhile stays unanswered until the handler has ended
C12_CallHoldsEventLoop ==
    \A t \in TaskIds : tasks[t].pc = "calling" => running = t

C12_Blocked ==
    \E t, u \in TaskIds :
        /\ tasks[t].pc = "calling"
        /\ tasks[u].pc = "pending"
        /\ ~ENABLED Begin(u)

====
